---------------------------- MODULE Spec2Model ----------------------------
(***************************************************************************)
(* A model of the query core of the NHL API scraper:                       *)
(*   - make_api_request   (generalFunctions.py, and its older copy in      *)
(*                         nhlAPI.py): bounded retries with backoff;       *)
(*   - nhlAPI.get_stats   (nhlAPIscraper.py; get_skaters_stats in          *)
(*                         nhlAPI.py): the start/limit pagination loop;    *)
(*   - filter_json_data / get_nested_value (generalFunctions.py);          *)
(*   - the wrappers' use of nhlAPI.default_params (nhlAPIscraper.py);      *)
(*   - filter_view and get_nested_value as functions of a JSON value and   *)
(*     a dotted path (generalFunctions.py);                                *)
(*   - the wrappers' client-side sort (nhlAPIscraper.py);                  *)
(*   - construct_sorting_params, construct_cayenne_exp and                 *)
(*     construct_fact_cayenne_exp (generalFunctions.py);                   *)
(*   - make_api_request called on its own, with arguments of the right and *)
(*     of the wrong kind (generalFunctions.py, nhlAPI.py);                 *)
(*   - two wrapper calls on two threads (nhlAPIscraper.py);                *)
(*   - the pagination loop against a service free in its answers;          *)
(*   - the "dict | None" wrappers after make_api_request has returned      *)
(*     (nhlAPIscraper.py).                                                 *)
(***************************************************************************)
EXTENDS Integers, Sequences, FiniteSets, TLC

(***************************************************************************)
(* Bounds of the model.                                                    *)
(***************************************************************************)
MaxRetries == 4
MaxLimit == 2
MaxData == 3
MaxRequests == 3

(***************************************************************************)
(* Program constants.  Durations are counted in tenths of a second.        *)
(***************************************************************************)
BackoffGeneral == 1
BackoffScraper == 3
BackoffLegacy == 5
RetriesLegacy == 3
SkaterLimit == 100
ExampleTotal == 137

VARIABLES
    impl,            \* "scraper": nhlAPIscraper.py + generalFunctions.py; "legacy": nhlAPI.py
    jsonErrIsReqExc, \* does requests' JSONDecodeError derive from RequestException (requests >= 2.27)
    retries,         \* make_api_request(retries=...)
    backoff,         \* make_api_request(backoff=...)
    validation,      \* make_api_request(validation=...)
    limit,           \* params["limit"] of get_stats
    gs,              \* get_stats: "Fetching", "Complete", "Failed", "Raised"
    all_data,        \* get_stats: the accumulator
    start,           \* get_stats: params["start"]
    result,          \* get_stats: the value returned to the caller
    requests,        \* the start of every page request issued so far, in order
    pages,           \* every page payload received so far, in order
    rq,              \* make_api_request: "start", "running", "sleeping", "returned", "raised"
    attempt,         \* make_api_request: the for-loop variable
    gets,            \* GETs issued by the current make_api_request call
    sleeps,          \* delays slept by the current make_api_request call, in order
    outcomes,        \* outcome of every GET of the current call, in order
    ret,             \* make_api_request: the value returned, or the exception raised
    f_data,          \* filter_json_data: data
    f_filters,       \* filter_json_data: filters
    f_kept,          \* what filter_json_data(data, filters) gave
    f_dropped,       \* what filter_json_data(data, filters, exclude=True) gave
    default_params,  \* the class attribute nhlAPI.default_params
    p_call,          \* the latest wrapper call: its name and keyword arguments
    p_seen,          \* the parameter values that call worked with
    v_data,          \* filter_view / get_nested_value: data
    v_view,          \* filter_view: view; get_nested_value: key
    v_validation,    \* filter_view: validation
    v_out,           \* what filter_view(data, view, validation) gave
    v_again,         \* what filter_view(v_out, None, validation) gave
    n_out,           \* what get_nested_value(data, view) gave
    s_data,          \* the list the wrapper sorts, as the call received it
    s_sort,          \* the wrapper's sort argument: a list of field names
    s_direction,     \* the wrapper's direction argument: a list of directions
    s_list,          \* the list being sorted in place
    s_todo,          \* the (field, direction) pairs the loop has yet to take
    s_round,         \* 0: first sort running, 1: returned, 2: second sort running, 3: returned
    s_first,         \* the list as the first sort left it
    q_fn,            \* which of the construct_* functions is called
    q_args,          \* its arguments
    q_out,           \* what it gave
    r_impl,          \* make_api_request called directly: which copy, "scraper" or "legacy"
    r_json,          \* does requests' JSONDecodeError derive from RequestException
    r_url,           \* make_api_request(url)
    r_timeout,       \* make_api_request(timeout=...)
    r_retries,       \* make_api_request(retries=...)
    r_validation,    \* make_api_request(validation=...)
    r_pc,            \* "idle", "start", "running", "sleeping", "returned", "raised"
    r_attempt,       \* the for-loop variable
    r_events,        \* the GETs and the sleeps of the call, in order
    r_ret,           \* the value returned, or the exception raised
    t_kwargs,        \* two concurrent wrapper calls: the keyword arguments of each
    t_pc,            \* how far each call is: 0 before params.update, 1..3 before its next params.get, 4 past them
    t_seen,          \* the value each call read for each parameter, Pending before the read
    l_impl,          \* the pagination loop on its own: which copy, "scraper" or "legacy"
    l_limit,         \* params["limit"]
    l_gs,            \* "Idle", "Fetching", "Complete", "Failed", "Raised"
    l_all_data,      \* the accumulator
    l_start,         \* params["start"]
    l_data,          \* what make_api_request gave for the page asked, Pending while it runs
    l_result,        \* the value returned to the caller
    w_fn,            \* the wrapper called
    w_opts,          \* which of sort, filter_fields, filter_data and exclude_data the call gives, and its view
    w_data,          \* what make_api_request gave the wrapper: None or a payload
    w_out            \* what the wrapper gave: a value or the exception raised, Pending before

pageVars == <<impl, jsonErrIsReqExc, retries, backoff, validation, limit, gs, all_data,
              start, result, requests, pages, rq, attempt, gets, sleeps, outcomes, ret>>
filterVars == <<f_data, f_filters, f_kept, f_dropped>>
paramVars == <<default_params, p_call, p_seen>>
viewVars == <<v_data, v_view, v_validation, v_out, v_again, n_out>>
sortVars == <<s_data, s_sort, s_direction, s_list, s_todo, s_round, s_first>>
queryVars == <<q_fn, q_args, q_out>>
requestVars == <<r_impl, r_json, r_url, r_timeout, r_retries, r_validation, r_pc, r_attempt, r_events, r_ret>>
threadVars == <<t_kwargs, t_pc, t_seen>>
loopVars == <<l_impl, l_limit, l_gs, l_all_data, l_start, l_data, l_result>>
wrapVars == <<w_fn, w_opts, w_data, w_out>>
vars == <<pageVars, filterVars, paramVars, viewVars, sortVars, queryVars, requestVars, threadVars, loopVars, wrapVars>>
otherThanPage == <<filterVars, paramVars, viewVars, sortVars, queryVars, requestVars, threadVars, loopVars, wrapVars>>
otherThanFilter == <<pageVars, paramVars, viewVars, sortVars, queryVars, requestVars, threadVars, loopVars, wrapVars>>
otherThanParams == <<pageVars, filterVars, viewVars, sortVars, queryVars, requestVars, threadVars, loopVars, wrapVars>>
otherThanView == <<pageVars, filterVars, paramVars, sortVars, queryVars, requestVars, threadVars, loopVars, wrapVars>>
otherThanSort == <<pageVars, filterVars, paramVars, viewVars, queryVars, requestVars, threadVars, loopVars, wrapVars>>
otherThanQuery == <<pageVars, filterVars, paramVars, viewVars, sortVars, requestVars, threadVars, loopVars, wrapVars>>
otherThanRequest == <<pageVars, filterVars, paramVars, viewVars, sortVars, queryVars, threadVars, loopVars, wrapVars>>
otherThanThreads == <<pageVars, filterVars, paramVars, viewVars, sortVars, queryVars, requestVars, loopVars, wrapVars>>
otherThanThreadsAndParams == <<pageVars, filterVars, viewVars, sortVars, queryVars, requestVars, loopVars, wrapVars>>
otherThanLoop == <<pageVars, filterVars, paramVars, viewVars, sortVars, queryVars, requestVars, threadVars, wrapVars>>
otherThanWrap == <<pageVars, filterVars, paramVars, viewVars, sortVars, queryVars, requestVars, threadVars, loopVars>>

(***************************************************************************)
(* Values.  A Python value is a record [t, v]: t is its type and v its     *)
(* payload, so that values of different types can be compared.             *)
(***************************************************************************)
None == [t |-> "None", v |-> 0]
JNum(n) == [t |-> "int", v |-> n]
JStr(s) == [t |-> "str", v |-> s]
JBool(b) == [t |-> "bool", v |-> b]
JList(l) == [t |-> "list", v |-> l]
JDict(d) == [t |-> "dict", v |-> d]
Raised(e) == [t |-> "raise", v |-> e]

Min(a, b) == IF a <= b THEN a ELSE b

(***************************************************************************)
(* The remote service.  It holds records 1..n (a record is identified by   *)
(* its position in the result set) and answers a request for (start,       *)
(* limit) with the slice start+1 .. start+limit of them and total = n.     *)
(***************************************************************************)
Slice(s, l, n) == [i \in 1..(IF Min(s + l, n) > s THEN Min(s + l, n) - s ELSE 0) |-> s + i]
Page(s, l, n) == [data |-> Slice(s, l, n), total |-> n]

(***************************************************************************)
(* make_api_request                                                        *)
(***************************************************************************)
Outcomes == {"fail", "empty", "garbage", "ok"}

\* range(retries): the loop body runs for attempt = 0 .. retries-1
LoopRuns(a, n) == a < n

\* "if attempt < retries - 1" : sleep and try again, else give up
SleepsAfterLast(a, n) == a < n
GivesUpEarly(a, n) == a < n - 2
ShouldRetry(a, n) == a < n - 1

\* "delay = (2 ** attempt) * backoff"
BackoffLinear(a, b) == (a + 1) * b
BackoffDelay(a, b) == (2 ^ a) * b

\* validation of the arguments, before the loop
ValidationFails(i, v, n) == i = "scraper" /\ v /\ ~(n > 0)

\* What a GET with the given outcome raises inside the try block:
\* "RequestException", "JSONDecodeError" or "none".  A failed GET (fail)
\* raises in session.get or raise_for_status; an empty body (empty) passes
\* "if not response.content: return None" in generalFunctions.py and reaches
\* response.json() in nhlAPI.py; response.json() raises JSONDecodeError on a
\* body that is not JSON (garbage, and empty), which is a RequestException
\* from requests 2.27 on.
EmptyBodyIgnored(i, o, j) ==
    CASE o = "fail" -> "RequestException"
      [] o \in {"garbage", "empty"} -> IF j THEN "RequestException" ELSE "JSONDecodeError"
      [] OTHER -> "none"
Thrown(i, o, j) ==
    CASE o = "fail" -> "RequestException"
      [] o = "garbage" -> IF j THEN "RequestException" ELSE "JSONDecodeError"
      [] o = "empty" -> IF i = "scraper" THEN "none"
                        ELSE IF j THEN "RequestException" ELSE "JSONDecodeError"
      [] OTHER -> "none"

\* An exception that is no RequestException: "except Exception: return None"
\* in nhlAPI.py, no handler in generalFunctions.py.
Uncaught(i, e) == IF i = "legacy" THEN None ELSE Raised(e)


(***************************************************************************)
(* get_stats (return_all) and get_skaters_stats: the pagination loop       *)
(***************************************************************************)
\* "all_data.extend(data.get("data", []))"
Extend(acc, d) == acc \o d

\* "if len(all_data) >= data.get("total", 0): break"
LoopDoneStrict(acc, total) == Len(acc) > total
LoopDone(acc, total) == Len(acc) >= total

\* "params["start"] = str(len(all_data))"
StaleStart(acc) == 0
NextStart(acc) == Len(acc)

\* "if data is None: return None"
PartialResult(i, acc) == JDict([data |-> acc, total |-> Len(acc)])
AbsentResult(i, acc) == None

\* the value returned once the loop has ended (view, filter_fields and
\* return_info left at their defaults)
FinalResult(i, acc) ==
    IF i = "scraper" THEN JDict([data |-> acc, total |-> Len(acc)]) ELSE JList(acc)

\* the call of make_api_request at the top of the loop body
CallRequest(s) ==
    /\ requests' = Append(requests, s)
    /\ rq' = "start"
    /\ attempt' = 0
    /\ gets' = 0
    /\ sleeps' = <<>>
    /\ outcomes' = <<>>
    /\ ret' = None

callArgs == <<impl, jsonErrIsReqExc, retries, backoff, validation, limit>>

PageStart ==
    /\ impl \in {"scraper", "legacy"}
    /\ jsonErrIsReqExc \in BOOLEAN
    /\ retries \in (IF impl = "scraper" THEN 0..MaxRetries ELSE {RetriesLegacy})
    /\ backoff \in (IF impl = "scraper" THEN {BackoffGeneral, BackoffScraper} ELSE {BackoffLegacy})
    /\ validation \in (IF impl = "scraper" THEN BOOLEAN ELSE {TRUE})
    /\ limit \in (0..MaxLimit) \cup {SkaterLimit}
    /\ gs = "Fetching"
    /\ all_data = <<>>
    /\ start = 0
    /\ result = None
    /\ requests = <<0>>
    /\ pages = <<>>
    /\ rq = "start"
    /\ attempt = 0
    /\ gets = 0
    /\ sleeps = <<>>
    /\ outcomes = <<>>
    /\ ret = None

\* make_api_request: the argument checks that precede the loop
Validate ==
    /\ gs = "Fetching" /\ rq = "start"
    /\ IF ValidationFails(impl, validation, retries)
         THEN rq' = "raised" /\ ret' = Raised("ValueError")
         ELSE rq' = "running" /\ ret' = ret
    /\ UNCHANGED <<callArgs, gs, all_data, start, result, requests, pages,
                   attempt, gets, sleeps, outcomes>>
    /\ UNCHANGED otherThanPage

\* make_api_request: range(retries) is exhausted, "return None" after the loop
LoopExit ==
    /\ gs = "Fetching" /\ rq = "running"
    /\ ~LoopRuns(attempt, retries)
    /\ rq' = "returned" /\ ret' = None
    /\ UNCHANGED <<callArgs, gs, all_data, start, result, requests, pages,
                   attempt, gets, sleeps, outcomes>>
    /\ UNCHANGED otherThanPage

\* make_api_request: one pass of the loop body, a GET and what follows it
Get(o, n) ==
    /\ gs = "Fetching" /\ rq = "running"
    /\ LoopRuns(attempt, retries)
    /\ gets' = gets + 1
    /\ outcomes' = Append(outcomes, o)
    /\ LET e == Thrown(impl, o, jsonErrIsReqExc) IN
         CASE e = "none" ->
                /\ rq' = "returned"
                /\ ret' = IF o = "empty" THEN None ELSE JDict(Page(start, limit, n))
                /\ sleeps' = sleeps
           [] e = "RequestException" ->
                IF ShouldRetry(attempt, retries)
                  THEN /\ rq' = "sleeping"
                       /\ sleeps' = Append(sleeps, BackoffDelay(attempt, backoff))
                       /\ ret' = ret
                  ELSE /\ rq' = "returned"
                       /\ ret' = None
                       /\ sleeps' = sleeps
           [] OTHER ->
                /\ ret' = Uncaught(impl, e)
                /\ rq' = IF ret'.t = "raise" THEN "raised" ELSE "returned"
                /\ sleeps' = sleeps
    /\ UNCHANGED <<callArgs, gs, all_data, start, result, requests, pages, attempt>>
    /\ UNCHANGED otherThanPage

\* make_api_request: time.sleep(delay) ends, the loop goes to the next attempt
WakeUp ==
    /\ gs = "Fetching" /\ rq = "sleeping"
    /\ rq' = "running"
    /\ attempt' = attempt + 1
    /\ UNCHANGED <<callArgs, gs, all_data, start, result, requests, pages,
                   gets, sleeps, outcomes, ret>>
    /\ UNCHANGED otherThanPage

\* get_stats: make_api_request returned None
PageAbsent ==
    /\ gs = "Fetching" /\ rq = "returned" /\ ret = None
    /\ gs' = "Failed"
    /\ result' = AbsentResult(impl, all_data)
    /\ UNCHANGED <<callArgs, all_data, start, requests, pages,
                   rq, attempt, gets, sleeps, outcomes, ret>>
    /\ UNCHANGED otherThanPage

\* get_stats: make_api_request returned the last page
PageLast ==
    /\ gs = "Fetching" /\ rq = "returned" /\ ret # None
    /\ LoopDone(Extend(all_data, ret.v.data), ret.v.total)
    /\ all_data' = Extend(all_data, ret.v.data)
    /\ pages' = Append(pages, ret.v)
    /\ gs' = "Complete"
    /\ result' = FinalResult(impl, all_data')
    /\ UNCHANGED <<callArgs, start, requests, rq, attempt, gets, sleeps, outcomes, ret>>
    /\ UNCHANGED otherThanPage

\* get_stats: make_api_request returned a page and more are to come
PageMore ==
    /\ gs = "Fetching" /\ rq = "returned" /\ ret # None
    /\ ~LoopDone(Extend(all_data, ret.v.data), ret.v.total)
    /\ Len(requests) < MaxRequests
    /\ all_data' = Extend(all_data, ret.v.data)
    /\ pages' = Append(pages, ret.v)
    /\ start' = NextStart(all_data')
    /\ CallRequest(start')
    /\ UNCHANGED <<callArgs, gs, result>>
    /\ UNCHANGED otherThanPage

\* get_stats: make_api_request raised, and nothing catches it
PageRaised ==
    /\ gs = "Fetching" /\ rq = "raised"
    /\ gs' = "Raised"
    /\ result' = ret
    /\ UNCHANGED <<callArgs, all_data, start, requests, pages,
                   rq, attempt, gets, sleeps, outcomes, ret>>
    /\ UNCHANGED otherThanPage

DataSizes == (0..MaxData) \cup {ExampleTotal}

NextPage ==
    \/ Validate
    \/ LoopExit
    \/ \E o \in Outcomes, n \in DataSizes : Get(o, IF o = "ok" THEN n ELSE 0)
    \/ WakeUp
    \/ PageAbsent
    \/ PageLast
    \/ PageMore
    \/ PageRaised

(***************************************************************************)
(* Variables of the other parts are parked while this part runs.           *)
(***************************************************************************)
FilterIdle ==
    /\ f_data = <<>> /\ f_filters = None
    /\ f_kept = None /\ f_dropped = None
ParamsIdle ==
    /\ default_params = <<>> /\ p_call = <<>> /\ p_seen = <<>>
ViewIdle ==
    /\ v_data = None /\ v_view = <<>> /\ v_validation = FALSE
    /\ v_out = None /\ v_again = None /\ n_out = None
SortIdle ==
    /\ s_data = <<>> /\ s_sort = <<>> /\ s_direction = <<>> /\ s_list = <<>>
    /\ s_todo = <<>> /\ s_round = 0 /\ s_first = <<>>
QueryIdle ==
    /\ q_fn = "none" /\ q_args = <<>> /\ q_out = None
WrapIdle ==
    /\ w_fn = "none" /\ w_opts = <<>> /\ w_data = None /\ w_out = None
LoopIdle ==
    /\ l_impl = "scraper" /\ l_limit = 0 /\ l_gs = "Idle" /\ l_all_data = <<>>
    /\ l_start = 0 /\ l_data = None /\ l_result = None
ThreadsIdle ==
    /\ t_kwargs = <<>> /\ t_pc = <<>> /\ t_seen = <<>>
RequestIdle ==
    /\ r_impl = "scraper" /\ r_json = TRUE /\ r_url = None /\ r_timeout = None
    /\ r_retries = None /\ r_validation = FALSE /\ r_pc = "idle"
    /\ r_attempt = 0 /\ r_events = <<>> /\ r_ret = None
PageIdle ==
    /\ impl = "scraper" /\ jsonErrIsReqExc = TRUE /\ retries = 0 /\ backoff = 0
    /\ validation = FALSE /\ limit = 0 /\ gs = "Idle" /\ all_data = <<>>
    /\ start = 0 /\ result = None /\ requests = <<>> /\ pages = <<>>
    /\ rq = "idle" /\ attempt = 0 /\ gets = 0 /\ sleeps = <<>>
    /\ outcomes = <<>> /\ ret = None

Init == PageStart /\ FilterIdle /\ ParamsIdle /\ ViewIdle /\ SortIdle /\ QueryIdle /\ RequestIdle /\ ThreadsIdle /\ LoopIdle /\ WrapIdle
Next == NextPage
Spec == Init /\ [][Next]_vars

(***************************************************************************)
(* Properties of make_api_request                                          *)
(***************************************************************************)
\* every GET of the current call met a transport failure
AllFail == \A i \in 1..Len(outcomes) : outcomes[i] = "fail"

\* C1: with retries = N >= 1 and every GET failing with a transport failure,
\* the call issues at most N GETs while it runs, never raises, and ends
\* having issued exactly N GETs and returned None.
C1_RetryBound ==
    (retries >= 1 /\ AllFail) =>
        /\ gets = Len(outcomes)
        /\ gets <= retries
        /\ rq # "raised"
        /\ (rq = "returned" => gets = retries /\ ret = None)

C1_Witness ==
    /\ retries = 3 /\ AllFail /\ gets = 3
    /\ rq = "returned" /\ ret = None

\* C7: a 2xx answer whose non-empty body is not JSON ends the call at once:
\* it is the last GET, no sleep follows it, and the decode error is raised
\* to the caller.
C7_DecodeErrorIsHard ==
    \A i \in 1..Len(outcomes) :
        outcomes[i] = "garbage" =>
            /\ i = Len(outcomes)
            /\ Len(sleeps) = i - 1
            /\ rq = "raised"
            /\ ret = Raised("JSONDecodeError")

\* C8: in generalFunctions.make_api_request a 2xx answer with an empty body
\* ends the call at once: it is the last GET, no sleep follows it, and the
\* call has returned None, whatever is left of the retry budget.
C8_EmptyBodyNotRetried ==
    impl = "scraper" =>
        \A i \in 1..Len(outcomes) :
            outcomes[i] = "empty" =>
                /\ i = Len(outcomes)
                /\ gets = i
                /\ Len(sleeps) = i - 1
                /\ rq = "returned"
                /\ ret = None

C8_Witness ==
    /\ impl = "scraper" /\ retries = 4
    /\ outcomes = <<"fail", "empty">>
    /\ rq = "returned" /\ ret = None /\ Len(sleeps) = 1

\* C9: the k-th attempt (k >= 2) is preceded by a sleep of backoff * 2^(k-2):
\* the delays are backoff, 2*backoff, 4*backoff, ..., one before each attempt
\* after the first and none after the last.
C9_BackoffSchedule ==
    /\ \A k \in 2..(Len(sleeps) + 1) : sleeps[k - 1] = backoff * 2 ^ (k - 2)
    /\ \A k \in 3..(Len(sleeps) + 1) : sleeps[k - 1] = 2 * sleeps[k - 2]
    /\ \A k \in 2..(Len(sleeps) + 1) : k <= retries
    /\ (rq = "sleeping" => Len(sleeps) = attempt + 1)
    /\ (rq = "running" => Len(sleeps) = attempt)

C9_Witness ==
    /\ retries = 4 /\ backoff = BackoffScraper
    /\ sleeps = <<3, 6, 12>>
    /\ rq = "running" /\ attempt = 3

(***************************************************************************)
(* Properties of the pagination loop                                       *)
(***************************************************************************)
RECURSIVE Concat(_)
Concat(ps) == IF ps = <<>> THEN <<>> ELSE ps[1].data \o Concat(Tail(ps))

\* the number of records in the first i pages
RECURSIVE Received(_)
Received(i) == IF i = 0 THEN 0 ELSE Received(i - 1) + Len(pages[i].data)

\* every page received reports the same total
ConsistentTotal == \A i \in 1..Len(pages) : pages[i].total = pages[1].total

\* the records the caller gets
Returned == IF result.t = "dict" THEN result.v.data ELSE result.v

C4_FailFast ==
    /\ (rq = "returned" /\ ret = None) => gs \in {"Fetching", "Failed"}
    /\ gs = "Failed" => (rq = "returned" /\ ret = None /\ result = None)
    /\ gs = "Complete" => Len(pages) = Len(requests)

C4_Witness ==
    /\ gs = "Failed" /\ result = None
    /\ Len(pages) = 2 /\ all_data = <<1, 2>>

\* C10: the first request has start = 0, every later one starts at the
\* number of records received before it, and the loop ends exactly at the
\* first page that brings the count up to that page's total; pages of 100 and
\* 37 records with total 137 take 2 requests.
C10_PaginationProtocol ==
    /\ requests[1] = 0
    /\ Len(pages) <= Len(requests) /\ Len(requests) <= Len(pages) + 1
    /\ \A i \in 2..Len(requests) : requests[i] = Received(i - 1)
    /\ start = requests[Len(requests)]
    /\ Len(all_data) = Received(Len(pages))
    /\ \A i \in 1..Len(pages) :
          (Received(i) >= pages[i].total) <=> (i = Len(pages) /\ gs = "Complete")
    /\ gs = "Complete" => Len(requests) = Len(pages)
    /\ (gs = "Complete" /\ limit = SkaterLimit /\ ConsistentTotal
          /\ pages[1].total = ExampleTotal) =>
             /\ requests = <<0, SkaterLimit>>
             /\ Len(Returned) = ExampleTotal

C10_Witness ==
    /\ gs = "Complete" /\ limit = 100
    /\ requests = <<0, 100>>
    /\ Len(pages) = 2 /\ pages[1].total = 137 /\ pages[2].total = 137
    /\ Len(pages[1].data) = 100 /\ Len(pages[2].data) = 37
    /\ Len(Returned) = 137

(***************************************************************************)
(* get_nested_value and filter_json_data                                   *)
(*                                                                         *)
(* A key is a Python string, kept as its sequence of tokens: a token is    *)
(* "." or a name (a run of characters other than "."), and two names are   *)
(* never adjacent.  A dict is a function from its keys to its values.      *)
(***************************************************************************)
MaxRecords == 2
MaxCriteria == 2

Pending == [t |-> "pending", v |-> 0]
EmptyDict == JDict(<<>>)

\* key.split(".")
RECURSIVE SplitFrom(_, _)
SplitFrom(toks, cur) ==
    IF toks = <<>> THEN <<cur>>
    ELSE IF Head(toks) = "." THEN <<cur>> \o SplitFrom(Tail(toks), "")
    ELSE SplitFrom(Tail(toks), Head(toks))
Split(key) == SplitFrom(key, "")

\* bool(x)
Truthy(x) ==
    CASE x.t = "None" -> FALSE
      [] x.t = "bool" -> x.v
      [] x.t = "int" -> x.v # 0
      [] x.t = "str" -> x.v # ""
      [] x.t = "list" -> x.v # <<>>
      [] x.t = "dict" -> DOMAIN x.v # {}
      [] OTHER -> TRUE

\* a == b
IsNumber(x) == x.t \in {"int", "bool"}
NumberOf(x) == IF x.t = "bool" THEN (IF x.v THEN 1 ELSE 0) ELSE x.v
RECURSIVE PyEq(_, _)
PyEq(a, b) ==
    IF IsNumber(a) /\ IsNumber(b) THEN NumberOf(a) = NumberOf(b)
    ELSE IF a.t # b.t THEN FALSE
    ELSE CASE a.t = "list" ->
                /\ Len(a.v) = Len(b.v)
                /\ \A i \in 1..Len(a.v) : PyEq(a.v[i], b.v[i])
           [] a.t = "dict" ->
                /\ DOMAIN a.v = DOMAIN b.v
                /\ \A k \in DOMAIN a.v : PyEq(a.v[k], b.v[k])
           [] a.t = "None" -> TRUE
           [] OTHER -> a.v = b.v

\* x in l, for a list l
PyIn(x, l) == \E i \in 1..Len(l.v) : PyEq(l.v[i], x)

\* data.get(k, {}): an AttributeError when data is no dict
DictGet(data, k) ==
    IF data.t # "dict" THEN Raised("AttributeError")
    ELSE IF k \in DOMAIN data.v THEN data.v[k] ELSE EmptyDict

\* "for k in keys: data = data.get(k, {})"
RECURSIVE Walk(_, _)
Walk(data, keys) ==
    IF keys = <<>> \/ data.t = "raise" THEN data
    ELSE Walk(DictGet(data, Head(keys)), Tail(keys))

\* "return data if data else None"
get_nested_value(data, key) ==
    LET found == Walk(data, Split(key)) IN
    IF found.t = "raise" THEN found
    ELSE IF Truthy(found) THEN found ELSE None

\* one criterion of the comprehension:
\* (g == value if value is not None else g is None)
\*     or (isinstance(value, list) and g in value)
CriterionMatches(item, key, value) ==
    LET g == get_nested_value(item, key) IN
    IF g.t = "raise" THEN g
    ELSE JBool(\/ (IF value # None THEN PyEq(g, value) ELSE g = None)
               \/ (value.t = "list" /\ PyIn(g, value)))

\* all(... for key, value in filters.items()): stops at the first criterion
\* that does not match
RECURSIVE AllMatch(_, _)
AllMatch(item, fs) ==
    IF fs = <<>> THEN JBool(TRUE)
    ELSE LET c == CriterionMatches(item, fs[1][1], fs[1][2]) IN
         IF c.t = "raise" THEN c
         ELSE IF ~c.v THEN JBool(FALSE)
         ELSE AllMatch(item, Tail(fs))

\* "exclude ^ all(...)"
KeepIgnoringExclude(exclude, all) == all
Keep(exclude, all) == exclude # all

\* The records the calls are given.  A list of records holds references:
\* data is a sequence of indices of this table.
Items == <<
    JDict([gp |-> JNum(10), team |-> JDict([id |-> JNum(1)])]),
    JDict([gp |-> JNum(0), team |-> JDict([id |-> JNum(2)])]),
    JDict([gp |-> JNum(10), team |-> None]),
    JDict([gp |-> None]),
    JDict([team |-> JDict([id |-> JNum(1)])]),
    JDict([gp |-> JNum(0), team |-> EmptyDict]),
    JDict([gp |-> JBool(FALSE), name |-> JStr("")]) >>

\* the comprehension "[item for item in data if exclude ^ all(...)]"
RECURSIVE Comprehension(_, _, _)
Comprehension(data, fs, exclude) ==
    IF data = <<>> THEN JList(<<>>)
    ELSE LET a == AllMatch(Items[Head(data)], fs) IN
         IF a.t = "raise" THEN a
         ELSE LET rest == Comprehension(Tail(data), fs, exclude) IN
              IF rest.t = "raise" THEN rest
              ELSE IF Keep(exclude, a.v) THEN JList(<<Head(data)>> \o rest.v)
              ELSE rest

\* "if not filters"
NoFiltersOnlyNull(filters) == filters = None
NoFilters(filters) == ~Truthy(filters)

\* "if not filters: return data", then the comprehension
filter_json_data(data, filters, exclude) ==
    IF NoFilters(filters) THEN JList(data)
    ELSE Comprehension(data, filters.v, exclude)

\* The criteria the calls are given: a dict is kept as the sequence of its
\* (key, value) items, in insertion order.
CriterionSet ==
    ({<<"gp">>} \X {JNum(10), JNum(0), None, JList(<<JNum(10)>>), JList(<<JNum(0), JNum(10)>>)})
    \cup ({<<"team", ".", "id">>} \X {JNum(1), None, JList(<<JNum(1), JNum(2)>>)})
    \cup ({<<"team">>} \X {None})
    \cup ({<<"name">>} \X {JStr("")})
    \cup ({<<"gp">>} \X {JBool(FALSE)})

SeqsUpTo(S, n) == UNION {[1..k -> S] : k \in 0..n}
DistinctKeys(fs) == \A i, j \in 1..Len(fs) : i # j => fs[i][1] # fs[j][1]
FilterSet == {None} \cup {[t |-> "dict", v |-> fs] :
                            fs \in {x \in SeqsUpTo(CriterionSet, MaxCriteria) : DistinctKeys(x)}}

FilterStart ==
    /\ f_data \in SeqsUpTo(1..Len(Items), MaxRecords)
    /\ f_filters \in FilterSet
    /\ f_kept = Pending
    /\ f_dropped = Pending

\* filter_json_data(data, filters) : exclude = False
FilterKeep ==
    /\ f_kept = Pending
    /\ f_kept' = filter_json_data(f_data, f_filters, FALSE)
    /\ UNCHANGED <<f_data, f_filters, f_dropped>>
    /\ UNCHANGED otherThanFilter

\* filter_json_data(data, filters, exclude=True)
FilterDrop ==
    /\ f_dropped = Pending
    /\ f_dropped' = filter_json_data(f_data, f_filters, TRUE)
    /\ UNCHANGED <<f_data, f_filters, f_kept>>
    /\ UNCHANGED otherThanFilter

NextFilter == FilterKeep \/ FilterDrop

InitFilter == FilterStart /\ PageIdle /\ ParamsIdle /\ ViewIdle /\ SortIdle /\ QueryIdle /\ RequestIdle /\ ThreadsIdle /\ LoopIdle /\ WrapIdle
SpecFilter == InitFilter /\ [][NextFilter]_vars

(***************************************************************************)
(* Properties of filter_json_data                                          *)
(***************************************************************************)
RECURSIVE Count(_, _)
Count(x, seq) ==
    IF seq = <<>> THEN 0
    ELSE (IF Head(seq) = x THEN 1 ELSE 0) + Count(x, Tail(seq))

InSeq(x, seq) == \E i \in 1..Len(seq) : seq[i] = x

\* the two results split f_data: every record is in exactly one of them, as
\* often as it is in f_data
PartitionExact ==
    /\ \A r \in 1..Len(Items) :
          /\ Count(r, f_kept.v) + Count(r, f_dropped.v) = Count(r, f_data)
          /\ ~(InSeq(r, f_kept.v) /\ InSeq(r, f_dropped.v))
    /\ Len(f_kept.v) + Len(f_dropped.v) = Len(f_data)

BothFiltered == f_kept # Pending /\ f_dropped # Pending

Matches(item, key, value) ==
    LET c == CriterionMatches(item, key, value) IN c.t = "bool" /\ c.v
EveryCriterionMatches(item, fs) ==
    \A k \in 1..Len(fs) : Matches(item, fs[k][1], fs[k][2])
RECURSIVE KeptWhen(_, _, _)
KeptWhen(data, fs, exclude) ==
    IF data = <<>> THEN <<>>
    ELSE (IF exclude # EveryCriterionMatches(Items[Head(data)], fs)
            THEN <<Head(data)>> ELSE <<>>) \o KeptWhen(Tail(data), fs, exclude)

\* C6: for non-empty criteria the call returns the records for which
\* exclude XOR (every criterion matches), in their order: a record failing a
\* criterion is dropped when exclude is false and kept when it is true.
C6_KeptIffExcludeXorAll ==
    Truthy(f_filters) =>
        /\ f_kept # Pending => f_kept = JList(KeptWhen(f_data, f_filters.v, FALSE))
        /\ f_dropped # Pending => f_dropped = JList(KeptWhen(f_data, f_filters.v, TRUE))

(***************************************************************************)
(* The three kinds of criterion.  The value at a dotted path is looked up  *)
(* segment by segment; it is NotFound where the value reached is not a     *)
(* mapping or has no entry for the segment.                                *)
(***************************************************************************)
NotFound == [t |-> "notfound", v |-> 0]

RECURSIVE Resolve(_, _)
Resolve(data, keys) ==
    IF keys = <<>> THEN data
    ELSE IF data.t # "dict" THEN NotFound
    ELSE IF Head(keys) \notin DOMAIN data.v THEN NotFound
    ELSE Resolve(data.v[Head(keys)], Tail(keys))

IsScalar(v) == v.t \in {"int", "bool", "str"}
OneCriterion == Truthy(f_filters) /\ Len(f_filters.v) = 1
TheKey == f_filters.v[1][1]
TheValue == f_filters.v[1][2]

EqualsMatch(item, key, v) ==
    LET r == Resolve(item, Split(key)) IN r # NotFound /\ PyEq(r, v)

\* C11: with the single criterion key -> v, v a non-null scalar (0, False
\* and "" included), a record of the input is returned by the exclude=False
\* call, and left out by the exclude=True call, if and only if the value at
\* the path exists and equals v.
C11_EqualsCriterion ==
    (OneCriterion /\ IsScalar(TheValue)) =>
        \A r \in 1..Len(Items) : InSeq(r, f_data) =>
            /\ f_kept.t = "list" =>
                  (InSeq(r, f_kept.v) <=> EqualsMatch(Items[r], TheKey, TheValue))
            /\ f_dropped.t = "list" =>
                  (InSeq(r, f_dropped.v) <=> ~EqualsMatch(Items[r], TheKey, TheValue))

AbsentMatch(item, key) ==
    Resolve(item, Split(key)) \in {NotFound, None}

\* C12: with the single criterion key -> None, a record of the input is
\* returned by the exclude=False call, and left out by the exclude=True call,
\* if and only if the value at the path is missing or an explicit null; a
\* value that is present and not null (0, False, "", [] or {} included) does
\* not match.
C12_IsAbsentCriterion ==
    (OneCriterion /\ TheValue = None) =>
        \A r \in 1..Len(Items) : InSeq(r, f_data) =>
            /\ f_kept.t = "list" =>
                  (InSeq(r, f_kept.v) <=> AbsentMatch(Items[r], TheKey))
            /\ f_dropped.t = "list" =>
                  (InSeq(r, f_dropped.v) <=> ~AbsentMatch(Items[r], TheKey))

MemberMatch(item, key, l) ==
    LET r == Resolve(item, Split(key)) IN r # NotFound /\ PyIn(r, l)

\* C13: with the single criterion key -> list L, a record of the input is
\* returned by the exclude=False call, and left out by the exclude=True call,
\* if and only if the value at the path is an element of L; a record whose
\* value is a member of L, 0 included, always matches.
C13_MemberOfCriterion ==
    (OneCriterion /\ TheValue.t = "list") =>
        \A r \in 1..Len(Items) : InSeq(r, f_data) =>
            /\ f_kept.t = "list" =>
                  (InSeq(r, f_kept.v) <=> MemberMatch(Items[r], TheKey, TheValue))
            /\ f_dropped.t = "list" =>
                  (InSeq(r, f_dropped.v) <=> ~MemberMatch(Items[r], TheKey, TheValue))

\* C14: with an empty or a null filters mapping, both the exclude=False and
\* the exclude=True call return all the input records, in their order.
C14_EmptyCriteriaPassthrough ==
    f_filters \in {None, EmptyDict} =>
        /\ f_kept # Pending => f_kept = JList(f_data)
        /\ f_dropped # Pending => f_dropped = JList(f_data)

C14_Witness ==
    /\ f_filters = EmptyDict /\ f_data = <<2, 1>>
    /\ f_kept = JList(<<2, 1>>) /\ f_dropped = JList(<<2, 1>>)

(***************************************************************************)
(* The wrappers and nhlAPI.default_params                                  *)
(*                                                                         *)
(* Three of the parameters are followed: view, sort and retries.  A call's *)
(* keyword arguments give each of them a value or leave it out.            *)
(***************************************************************************)
ParamKeys == {"view", "sort", "retries"}
Omitted == [t |-> "omitted", v |-> 0]

\* nhlAPI.default_params as the class body sets it
DefaultParams == [view |-> None, sort |-> None, retries |-> JNum(3)]

ParamValues(k) ==
    CASE k = "view" -> {None, JStr("data")}
      [] k = "sort" -> {None, JStr("id")}
      [] OTHER -> {JNum(3), JNum(1)}
KwargsSet == {kw \in [ParamKeys -> {Omitted, None, JStr("data"), JStr("id"), JNum(3), JNum(1)}] :
                \A k \in ParamKeys : kw[k] \in ParamValues(k) \cup {Omitted}}
NoKwargs == [k \in ParamKeys |-> Omitted]

\* d.update(kwargs)
Update(d, kw) == [k \in DOMAIN d |-> IF kw[k] # Omitted THEN kw[k] ELSE d[k]]

\* "params = nhlAPI.default_params; params.update(kwargs)": params is the
\* class attribute itself, and the update is made on it
SharedParams(dp, kw) == Update(dp, kw)

\* "default_params = {**nhlAPI.default_params, ...}; default_params.update(kwargs)":
\* a new dict
CopiedParams(dp, kw) == Update(dp, kw)

\* "(params.get(param) for param in input_params)"
Read(params, keys) == [k \in keys |-> params[k]]

ParamsStart ==
    /\ default_params = DefaultParams
    /\ p_call = [name |-> "none", kwargs |-> NoKwargs]
    /\ p_seen = <<>>

\* nhlAPI.get_config(**kwargs)
get_config(kw) ==
    /\ default_params' = SharedParams(default_params, kw)
    /\ p_seen' = Read(default_params', {"view", "retries"})
    /\ p_call' = [name |-> "get_config", kwargs |-> kw]
    /\ UNCHANGED otherThanParams

\* nhlAPI.get_countries(**kwargs)
get_countries(kw) ==
    /\ default_params' = SharedParams(default_params, kw)
    /\ p_seen' = Read(default_params', {"sort", "view", "retries"})
    /\ p_call' = [name |-> "get_countries", kwargs |-> kw]
    /\ UNCHANGED otherThanParams

\* nhlAPI.get_stats(key, report, **kwargs)
get_stats(kw) ==
    /\ default_params' = default_params
    /\ p_seen' = Read(CopiedParams(default_params, kw), {"sort", "view", "retries"})
    /\ p_call' = [name |-> "get_stats", kwargs |-> kw]
    /\ UNCHANGED otherThanParams

NextParams ==
    \/ \E kw \in KwargsSet : get_config(kw)
    \/ \E kw \in KwargsSet : get_countries(kw)
    \/ \E kw \in KwargsSet : get_stats(kw)

InitParams == ParamsStart /\ PageIdle /\ FilterIdle /\ ViewIdle /\ SortIdle /\ QueryIdle /\ RequestIdle /\ ThreadsIdle /\ LoopIdle /\ WrapIdle
SpecParams == InitParams /\ [][NextParams]_vars

\* C2: no call changes nhlAPI.default_params, and a call that leaves a
\* parameter out works with its documented default, whatever earlier calls
\* were given.
C2_NoSharedState ==
    /\ default_params = DefaultParams
    /\ \A k \in DOMAIN p_seen :
          p_call.kwargs[k] = Omitted => p_seen[k] = DefaultParams[k]

(***************************************************************************)
(* Two wrapper calls on two threads: get_countries on the first and        *)
(* get_players on the second, each with its own keyword arguments.  Both   *)
(* take "params = nhlAPI.default_params", the one dict of the class, make  *)
(* params.update(kwargs) on it and then read it with params.get, one       *)
(* parameter after the other; the interpreter may switch threads between   *)
(* any two of these steps.                                                 *)
(***************************************************************************)
Threads == {1, 2}
Wrapper(t) == IF t = 1 THEN "get_countries" ELSE "get_players"

\* the followed parameters in the order of input_params
ReadOrder == <<"sort", "view", "retries">>

ThreadsStart ==
    /\ default_params = DefaultParams
    /\ p_call = <<>> /\ p_seen = <<>>
    /\ t_kwargs \in {kws \in [Threads -> KwargsSet] : kws[1] # kws[2]}
    /\ t_pc = [t \in Threads |-> 0]
    /\ t_seen = [t \in Threads |-> [k \in ParamKeys |-> Pending]]

\* "params = nhlAPI.default_params; params.update(kwargs)"
ThreadUpdate(t) ==
    /\ t_pc[t] = 0
    /\ default_params' = SharedParams(default_params, t_kwargs[t])
    /\ t_pc' = [t_pc EXCEPT ![t] = 1]
    /\ UNCHANGED <<t_kwargs, t_seen, p_call, p_seen>>
    /\ UNCHANGED otherThanThreadsAndParams

\* the next params.get(param) of "(params.get(param) for param in input_params)"
ThreadGet(t) ==
    /\ t_pc[t] \in 1..Len(ReadOrder)
    /\ LET k == ReadOrder[t_pc[t]] IN
         t_seen' = [t_seen EXCEPT ![t][k] = default_params[k]]
    /\ t_pc' = [t_pc EXCEPT ![t] = @ + 1]
    /\ UNCHANGED t_kwargs
    /\ UNCHANGED otherThanThreads

NextThreads ==
    \/ \E t \in Threads : ThreadUpdate(t)
    \/ \E t \in Threads : ThreadGet(t)

InitThreads == ThreadsStart /\ PageIdle /\ FilterIdle /\ ViewIdle /\ SortIdle /\ QueryIdle /\ RequestIdle /\ LoopIdle /\ WrapIdle
SpecThreads == InitThreads /\ [][NextThreads]_vars

\* what call t was given for parameter k, or the documented default
GivenOrDefault(t, k) ==
    IF t_kwargs[t][k] # Omitted THEN t_kwargs[t][k] ELSE DefaultParams[k]

\* C27: in every interleaving of the two calls' steps, each call reads for
\* every parameter the value it was given or the default, never a value
\* the other call supplied.
C27_NoCrossCallReads ==
    \A t \in Threads : \A k \in ParamKeys :
        t_seen[t][k] # Pending => t_seen[t][k] = GivenOrDefault(t, k)

(***************************************************************************)
(* filter_view and get_nested_value on a JSON value and a dotted path      *)
(*                                                                         *)
(* A view is None or a string, kept as its sequence of tokens like a key.  *)
(***************************************************************************)
PathStr(toks) == [t |-> "path", v |-> toks]

\* the substrings, among the field names used here, of the strings used here
SubstringPairs == {<<"id", "xid">>}
IsSubstring(f, str) == f = "" \/ f = str \/ <<f, str>> \in SubstringPairs

\* "field in data": a key of a dict, an element of a list, a substring of a
\* str, and a TypeError for a number or None
Contains(data, field) ==
    CASE data.t = "dict" -> JBool(field \in DOMAIN data.v)
      [] data.t = "list" -> JBool(PyIn(JStr(field), data))
      [] data.t = "str" -> JBool(IsSubstring(field, data.v))
      [] OTHER -> Raised("TypeError")

\* "data[field]", field a str: only a dict can be subscripted by it
Subscript(data, field) ==
    IF data.t = "dict" THEN data.v[field] ELSE Raised("TypeError")

\* raise ValueError(f"... Field '{field}' not found. Valid fields at this
\* level include: {', '.join(data.keys())}."): building the message calls
\* data.keys()
InvalidView(data, field) ==
    IF data.t = "dict"
      THEN [t |-> "ValueError", v |-> [field |-> field, keys |-> DOMAIN data.v]]
      ELSE Raised("AttributeError")

\* the loop "for field in view.split(".")"
RECURSIVE Descend(_, _, _)
Descend(data, fields, strict) ==
    IF fields = <<>> THEN data
    ELSE LET c == Contains(data, Head(fields)) IN
         IF c.t = "raise" THEN c
         ELSE IF ~c.v THEN (IF strict THEN InvalidView(data, Head(fields)) ELSE None)
         ELSE LET d == Subscript(data, Head(fields)) IN
              IF d.t = "raise" THEN d ELSE Descend(d, Tail(fields), strict)

\* "if not view"
NoView(view) == view = None \/ view.v = <<>>

\* "return data" for no view
UnprojectedAbsent(data) == None
Unprojected(data) == data

filter_view(data, view, strict) ==
    IF NoView(view) THEN Unprojected(data)
    ELSE Descend(data, Split(view.v), strict)

IsError(x) == x.t \in {"raise", "ValueError"}

\* the JSON values and the views the calls are given
ViewData == {
    JDict([a |-> JDict([b |-> JNum(1)]), c |-> JNum(2)]),
    JDict([a |-> JDict([b |-> JNum(0)])]),
    JDict([a |-> EmptyDict]),
    JDict([a |-> JNum(1)]),
    JDict([a |-> None]),
    JDict([a |-> JList(<<JStr("id")>>)]),
    JDict([a |-> JStr("xid")]),
    JDict([b |-> JNum(1)]),
    JList(<<>>),
    JNum(1),
    None }
ViewSet == {None} \cup {PathStr(p) : p \in
    {<<>>, <<"a">>, <<"b">>, <<"a", ".", "b">>, <<"a", ".", "id">>, <<"a", ".", "b", ".", "c">>}}

ViewStart ==
    /\ v_data \in ViewData
    /\ v_view \in ViewSet
    /\ v_validation \in BOOLEAN
    /\ v_out = Pending /\ v_again = Pending /\ n_out = Pending

\* filter_view(data, view, validation)
Project ==
    /\ v_out = Pending
    /\ v_out' = filter_view(v_data, v_view, v_validation)
    /\ UNCHANGED <<v_data, v_view, v_validation, v_again, n_out>>
    /\ UNCHANGED otherThanView

\* filter_view(x, None, validation), x the value the first call returned
ProjectAgain ==
    /\ v_out # Pending /\ ~IsError(v_out) /\ v_again = Pending
    /\ v_again' = filter_view(v_out, None, v_validation)
    /\ UNCHANGED <<v_data, v_view, v_validation, v_out, n_out>>
    /\ UNCHANGED otherThanView

\* get_nested_value(data, key), key a str
Nested ==
    /\ n_out = Pending /\ v_view # None
    /\ n_out' = get_nested_value(v_data, v_view.v)
    /\ UNCHANGED <<v_data, v_view, v_validation, v_out, v_again>>
    /\ UNCHANGED otherThanView

NextView == Project \/ ProjectAgain \/ Nested

InitView == ViewStart /\ PageIdle /\ FilterIdle /\ ParamsIdle /\ SortIdle /\ QueryIdle /\ RequestIdle /\ ThreadsIdle /\ LoopIdle /\ WrapIdle
SpecView == InitView /\ [][NextView]_vars

(***************************************************************************)
(* Properties of get_nested_value and filter_view                          *)
(***************************************************************************)
\* the path of the call cannot be resolved in its data
Unresolvable == Resolve(v_data, Split(v_view.v)) = NotFound

\* C15: get_nested_value never raises, and yields None when a step of the
\* path meets a value that is not a mapping (a number, a string, a list or
\* null) or a mapping without the segment.
C15_PathAccessorNeverRaises ==
    n_out # Pending =>
        /\ n_out.t # "raise"
        /\ Unresolvable => n_out = None

\* the first segment that cannot be resolved, and the keys at its level
RECURSIVE FirstUnresolved(_, _)
FirstUnresolved(data, keys) ==
    IF data.t = "dict" /\ Head(keys) \in DOMAIN data.v
      THEN FirstUnresolved(data.v[Head(keys)], Tail(keys))
      ELSE [field |-> Head(keys),
            keys |-> IF data.t = "dict" THEN DOMAIN data.v ELSE {}]

\* C16: for a view that is given and cannot be resolved in the data,
\* filter_view fails in strict mode with the invalid-view error naming the
\* first unresolvable segment and the keys at that level, and returns None
\* otherwise; no other error escapes in either mode.
C16_UnresolvableView ==
    (v_out # Pending /\ ~NoView(v_view) /\ Unresolvable) =>
        IF v_validation
          THEN /\ v_out.t = "ValueError"
               /\ v_out.v = FirstUnresolved(v_data, Split(v_view.v))
          ELSE v_out = None

\* C17: filter_view with a null view returns its input, so projecting the
\* result of a projection with a null view gives that result again.
C17_ProjectionIdempotent ==
    /\ (v_out # Pending /\ v_view = None) => v_out = v_data
    /\ v_again # Pending => v_again = v_out

C17_Witness ==
    /\ v_view = PathStr(<<"a", ".", "b">>)
    /\ v_out = JNum(1) /\ v_again = JNum(1)

(***************************************************************************)
(* The wrappers' client-side sort (get_players and the wrappers after it): *)
(*                                                                         *)
(*   for s, d in reversed(list(zip(sort, direction))):                     *)
(*       reverse = d.upper() == 'DESC'                                     *)
(*       data.sort(key=lambda x: (x.get(s) is None, x.get(s)),             *)
(*                 reverse=reverse)                                        *)
(*                                                                         *)
(* The list holds references to records: s_data gives, for each position   *)
(* of the list as received, the record there (an index of Rows), and       *)
(* s_list is the list as a sequence of those positions, so that two equal  *)
(* records, or one record listed twice, remain apart.                      *)
(***************************************************************************)
MaxRows == 3
MaxSortKeys == 2

Rows == <<
    JDict([a |-> JNum(1), b |-> JNum(2)]),
    JDict([a |-> JNum(1), b |-> JNum(1)]),
    JDict([a |-> JNum(2), b |-> JNum(1)]),
    JDict([a |-> None, b |-> JNum(1)]),
    JDict([b |-> JNum(2)]) >>

SortFields == {"a", "b"}
Directions == {"ASC", "DESC"}

\* d.upper()
Upper(d) ==
    CASE d \in {"asc", "ASC"} -> "ASC"
      [] d \in {"desc", "DESC"} -> "DESC"
      [] OTHER -> d

\* zip(sort, direction): as long as the shorter of the two
Zip(x, y) == [i \in 1..Min(Len(x), Len(y)) |-> <<x[i], y[i]>>]

Reverse(l) == [i \in 1..Len(l) |-> l[Len(l) + 1 - i]]

\* the order in which the loop takes the pairs
PassOrderForward(pairs) == pairs
PassOrder(pairs) == Reverse(pairs)

\* x.get(s)
GetOrNone(x, s) == IF s \in DOMAIN x.v THEN x.v[s] ELSE None

\* the key (x.get(s) is None, x.get(s)) of the record at position p
SortKey(p, s) ==
    LET g == GetOrNone(Rows[s_data[p]], s) IN <<g = None, g>>

\* k1 < k2 on these tuples: False < True on the first component, then the
\* values, which are compared only when both are numbers
KeyLess(k1, k2) ==
    IF k1[1] # k2[1] THEN ~k1[1] /\ k2[1]
    ELSE IF k1[1] THEN FALSE
    ELSE k1[2].v < k2[2].v

\* does key k1 go strictly before key k2 in a sort with this reverse flag
PrecedesOrTies(k1, k2, reverse) ==
    IF reverse THEN ~KeyLess(k1, k2) ELSE ~KeyLess(k2, k1)
Precedes(k1, k2, reverse) ==
    IF reverse THEN KeyLess(k2, k1) ELSE KeyLess(k1, k2)

\* list.sort(key=..., reverse=...): a stable sort; with reverse=True the
\* order of the keys is inverted and equal keys still keep their order
RECURSIVE InsertSorted(_, _, _, _)
InsertSorted(p, l, s, reverse) ==
    IF l = <<>> THEN <<p>>
    ELSE IF Precedes(SortKey(p, s), SortKey(Head(l), s), reverse) THEN <<p>> \o l
    ELSE <<Head(l)>> \o InsertSorted(p, Tail(l), s, reverse)

RECURSIVE ListSort(_, _, _)
ListSort(l, s, reverse) ==
    IF l = <<>> THEN <<>>
    ELSE InsertSorted(l[Len(l)], ListSort(SubSeq(l, 1, Len(l) - 1), s, reverse), s, reverse)

SortStart ==
    /\ s_data \in SeqsUpTo(1..Len(Rows), MaxRows)
    /\ s_sort \in SeqsUpTo(SortFields, MaxSortKeys) \ {<<>>}
    /\ s_direction \in SeqsUpTo(Directions, MaxSortKeys) \ {<<>>}
    /\ s_list = [i \in 1..Len(s_data) |-> i]
    /\ s_todo = PassOrder(Zip(s_sort, s_direction))
    /\ s_round = 0
    /\ s_first = <<>>

\* one turn of the loop
SortPass ==
    /\ s_round \in {0, 2} /\ s_todo # <<>>
    /\ LET s == Head(s_todo)[1]
           reverse == Upper(Head(s_todo)[2]) = "DESC"
       IN s_list' = ListSort(s_list, s, reverse)
    /\ s_todo' = Tail(s_todo)
    /\ UNCHANGED <<s_data, s_sort, s_direction, s_round, s_first>>
    /\ UNCHANGED otherThanSort

\* the loop is over
SortReturn ==
    /\ s_round \in {0, 2} /\ s_todo = <<>>
    /\ s_round' = s_round + 1
    /\ s_first' = IF s_round = 0 THEN s_list ELSE s_first
    /\ UNCHANGED <<s_data, s_sort, s_direction, s_list, s_todo>>
    /\ UNCHANGED otherThanSort

\* the same sort is asked of the list the first one left
SortAgain ==
    /\ s_round = 1
    /\ s_round' = 2
    /\ s_todo' = PassOrder(Zip(s_sort, s_direction))
    /\ UNCHANGED <<s_data, s_sort, s_direction, s_list, s_first>>
    /\ UNCHANGED otherThanSort

NextSort == SortPass \/ SortReturn \/ SortAgain

InitSort == SortStart /\ PageIdle /\ FilterIdle /\ ParamsIdle /\ ViewIdle /\ QueryIdle /\ RequestIdle /\ ThreadsIdle /\ LoopIdle /\ WrapIdle
SpecSort == InitSort /\ [][NextSort]_vars

(***************************************************************************)
(* Properties of the client-side sort                                      *)
(***************************************************************************)
\* the sort specification: the (field, direction) pairs, first-listed first
SortPairs == Zip(s_sort, s_direction)

\* the value of the k-th sort field in the record at position p (None when
\* the record has no such field), and the direction of the k-th pair
FieldValue(p, k) == GetOrNone(Rows[s_data[p]], SortPairs[k][1])
Descending(k) == Upper(SortPairs[k][2]) = "DESC"

\* the pairs on which two records differ, and the first of them
Differ(p, q) == {k \in 1..Len(SortPairs) : FieldValue(p, k) # FieldValue(q, k)}
FirstDiffer(p, q) == CHOOSE k \in Differ(p, q) : \A m \in Differ(p, q) : k <= m

\* a sort has returned
Sorted == s_round \in {1, 3}

\* C18: the sorted list holds the records of the input, and any two of them
\* stand in the order of the first listed key on which they differ, in that
\* key's direction, whatever their later keys; records equal on every key
\* stand in their input order.  (Where that key is null in one of the two,
\* their order is the matter of the null policy.)
C18_MultiKeyDominance ==
    Sorted =>
        /\ Len(s_list) = Len(s_data)
        /\ \A p \in 1..Len(s_data) : InSeq(p, s_list)
        /\ \A i, j \in 1..Len(s_list) : i < j =>
              LET p == s_list[i]
                  q == s_list[j]
              IN IF Differ(p, q) = {} THEN p < q
                 ELSE LET k == FirstDiffer(p, q) IN
                      (FieldValue(p, k) # None /\ FieldValue(q, k) # None) =>
                          IF Descending(k)
                            THEN FieldValue(p, k).v > FieldValue(q, k).v
                            ELSE FieldValue(p, k).v < FieldValue(q, k).v

C18_Witness ==
    /\ s_round = 1
    /\ s_sort = <<"a", "b">> /\ s_direction = <<"ASC", "DESC">>
    /\ s_data = <<3, 2, 1>>
    /\ s_list = <<3, 2, 1>>

\* C19: in the sorted list every record whose sort field is missing or null
\* stands before every record whose sort field is not null, for ASC and for
\* DESC.
C19_NullFirst ==
    (Sorted /\ SortPairs # <<>>) =>
        \A i, j \in 1..Len(s_list) : i < j =>
            ~(FieldValue(s_list[i], 1) # None /\ FieldValue(s_list[j], 1) = None)

\* C20: sorting the sorted list again with the same specification leaves
\* it as it is.
C20_SortIdempotent ==
    s_round = 3 => s_list = s_first

C20_Witness ==
    /\ s_round = 3
    /\ s_sort = <<"b", "a">> /\ s_direction = <<"DESC", "ASC">>
    /\ s_data = <<4, 2, 2>>
    /\ s_first = <<2, 3, 1>> /\ s_list = <<2, 3, 1>>

(***************************************************************************)
(* construct_sorting_params, construct_cayenne_exp and                     *)
(* construct_fact_cayenne_exp                                              *)
(*                                                                         *)
(* The string a function builds is kept as the sequence of its pieces: the *)
(* literal parts of the f-strings and the formatted values.                *)
(***************************************************************************)
Text(toks) == [t |-> "text", v |-> toks]

\* f"{value}"
Format(x) ==
    CASE x.t = "str" -> x.v
      [] x.t = "int" -> ToString(x.v)
      [] x.t = "bool" -> (IF x.v THEN "True" ELSE "False")
      [] OTHER -> "None"

\* "x if isinstance(x, list) else [x]"
AsList(x) == IF x.t = "list" THEN x.v ELSE <<x>>

\* sep.join(parts), parts a sequence of strings
RECURSIVE Join(_, _)
Join(parts, sep) ==
    IF parts = <<>> THEN <<>>
    ELSE IF Len(parts) = 1 THEN parts[1]
    ELSE parts[1] \o <<sep>> \o Join(Tail(parts), sep)

\* "for dir in direction: if validation and dir not in valid_directions"
ValidDirections == {JStr("ASC"), JStr("DESC")}
BadDirection(direction, strict) ==
    strict /\ \E i \in 1..Len(direction) : direction[i] \notin ValidDirections

\* the pairs the comprehension over zip(sort, direction) gives
SortPairing(x, y) == Zip(x, y)

\* json.dumps of one {"property": field, "direction": dir}
SortObject(pair) == [property |-> pair[1], direction |-> pair[2]]

construct_sorting_params(sort, direction, strict) ==
    IF strict /\ sort.t \notin {"str", "list"} THEN Raised("ValueError")
    ELSE IF strict /\ direction.t \notin {"str", "list"} THEN Raised("ValueError")
    ELSE IF BadDirection(AsList(direction), strict) THEN Raised("ValueError")
    ELSE LET pairs == SortPairing(AsList(sort), AsList(direction)) IN
         Text(<<"sort=", "[">>
              \o Join([i \in 1..Len(pairs) |-> <<SortObject(pairs[i])>>], ", ")
              \o <<"]">>)

\* the arguments the calls are given
SortArgs == {JNum(1)} \cup {JStr(f) : f \in SortFields}
    \cup {JList(l) : l \in SeqsUpTo({JStr(f) : f \in SortFields}, MaxSortKeys)}
DirectionArgs == {None, JStr("up")} \cup ValidDirections
    \cup {JList(l) : l \in SeqsUpTo(ValidDirections, MaxSortKeys)}

SortingStart ==
    /\ q_fn = "construct_sorting_params"
    /\ q_args \in [sort : SortArgs, direction : DirectionArgs, validation : BOOLEAN]
    /\ q_out = Pending

ConstructSortingParams ==
    /\ q_fn = "construct_sorting_params" /\ q_out = Pending
    /\ q_out' = construct_sorting_params(q_args.sort, q_args.direction, q_args.validation)
    /\ UNCHANGED <<q_fn, q_args>>
    /\ UNCHANGED otherThanQuery

(***************************************************************************)
(* construct_cayenne_exp                                                   *)
(***************************************************************************)
MaxPredicates == 2

\* format_date: strptime(date_string, "%Y-%m-%d") takes the month and the
\* day with or without a leading zero, strftime writes them with it; any
\* other string is a ValueError
Dates == [unpadded |-> "2024-1-5", padded |-> "2024-01-05",
          other |-> "2024-02-01", slashed |-> "05/01/2024"]
format_date(d) ==
    CASE d.v = Dates.unpadded -> JStr(Dates.padded)
      [] d.v \in {Dates.padded, Dates.other} -> d
      [] OTHER -> Raised("ValueError")

\* int(value) of a str: the number it spells, blanks around it ignored
IntOf(x) ==
    CASE x.t = "int" -> x
      [] x.v \in {"5", " 5"} -> JNum(5)
      [] OTHER -> Raised("ValueError")

\* which branch of the if / elif / elif chain is taken
RangeBranchLast(a) ==
    IF a.season # None THEN "season"
    ELSE IF a.start_date # None /\ a.end_date # None THEN "dates"
    ELSE IF a.start_season # None /\ a.end_season # None THEN "seasons"
    ELSE "none"
RangeBranch(a) ==
    IF a.start_season # None /\ a.end_season # None THEN "seasons"
    ELSE IF a.start_date # None /\ a.end_date # None THEN "dates"
    ELSE IF a.season # None THEN "season"
    ELSE "none"

\* the parts the chain appends: none or one, or the error of format_date
RangeParts(a) ==
    CASE RangeBranch(a) = "seasons" ->
            JList(<< <<"seasonId<=", Format(a.end_season), " and seasonId>=",
                       Format(a.start_season)>> >>)
      [] RangeBranch(a) = "dates" ->
            LET fs == format_date(a.start_date)
                fe == format_date(a.end_date)
            IN IF fs.t = "raise" THEN fs
               ELSE IF fe.t = "raise" THEN fe
               ELSE JList(<< <<"gameDate<='", fe.v, "' and gameDate>='", fs.v, "'">> >>)
      [] RangeBranch(a) = "season" ->
            JList(<< <<"seasonId=", Format(a.season)>> >>)
      [] OTHER -> JList(<<>>)

\* the parts one (key, value) item of default_kwargs appends
PredicateParts(key, value) ==
    IF value = None THEN <<>>
    ELSE CASE key = "game_type" -> << <<"gameTypeId=", Format(value)>> >>
           [] key = "franchise_id" -> << <<"franchiseId=", Format(IntOf(value))>> >>
           [] key = "position" ->
                IF value.t = "str" THEN << <<"positionCode='", value.v, "'">> >>
                ELSE IF value.t = "list"
                  THEN << <<"(">>
                          \o Join([i \in 1..Len(value.v) |->
                                    <<"positionCode='", Format(value.v[i]), "'">>], " or ")
                          \o <<")">> >>
                ELSE <<>>
           [] key = "player_name" ->
                << <<"skaterFullName likeIgnoreCase '%", Format(value), "%'">> >>
           [] key = "is_rookie" ->
                << <<"isRookie=", IF Truthy(value) THEN "1" ELSE "0">> >>
           [] OTHER -> <<>>

\* "for key, value in default_kwargs.items()"
RECURSIVE PredicateLoop(_)
PredicateLoop(items) ==
    IF items = <<>> THEN <<>>
    ELSE PredicateParts(items[1][1], items[1][2]) \o PredicateLoop(Tail(items))

\* the separator of the final join
JoinedByComma(parts) == Join(parts, ", ")
JoinedByAnd(parts) == Join(parts, " and ")

construct_cayenne_exp(a) ==
    LET range == RangeParts(a) IN
    IF range.t = "raise" THEN range
    ELSE Text(JoinedByAnd(range.v \o
                (IF Truthy(a.default_kwargs) THEN PredicateLoop(a.default_kwargs.v)
                 ELSE <<>>)))

\* the arguments the calls are given; default_kwargs is None or a dict,
\* kept as the sequence of its items
PredicateItems ==
    ({"game_type"} \X {JNum(2), None})
    \cup ({"position"} \X {JStr("C"), JList(<<JStr("C"), JStr("D")>>)})
    \cup ({"is_rookie"} \X {JBool(FALSE)})
    \cup ({"franchise_id"} \X {JStr(" 5")})
    \cup ({"player_name"} \X {JStr("Mc")})
    \cup ({"view"} \X {JStr("data")})
KwargsDicts == {None} \cup {[t |-> "dict", v |-> d] :
                  d \in {x \in SeqsUpTo(PredicateItems, MaxPredicates) : DistinctKeys(x)}}

CayenneStart ==
    /\ q_fn = "construct_cayenne_exp"
    /\ q_args \in [start_season : {None, JNum(20212022)},
                    end_season : {None, JNum(20222023)},
                    start_date : {None, JStr(Dates.unpadded), JStr(Dates.slashed)},
                    end_date : {None, JStr(Dates.other)},
                    season : {None, JStr("20232024")},
                    default_kwargs : KwargsDicts]
    /\ q_out = Pending

ConstructCayenneExp ==
    /\ q_fn = "construct_cayenne_exp" /\ q_out = Pending
    /\ q_out' = construct_cayenne_exp(q_args)
    /\ UNCHANGED <<q_fn, q_args>>
    /\ UNCHANGED otherThanQuery

(***************************************************************************)
(* construct_fact_cayenne_exp                                              *)
(***************************************************************************)
MaxTriples == 2

\* zip(property, comparator, value): as long as the shortest of the three
Zip3(x, y, z) == [i \in 1..Min(Len(x), Min(Len(y), Len(z))) |-> <<x[i], y[i], z[i]>>]

\* "for prop, comp, val in zip(...): fact_cayenne_exp += f" and {prop}{comp}{val}""
RECURSIVE TripleLoop(_)
TripleLoop(triples) ==
    IF triples = <<>> THEN <<>>
    ELSE <<" and ", Format(triples[1][1]), Format(triples[1][2]), Format(triples[1][3])>>
         \o TripleLoop(Tail(triples))

\* "if max_gp is not None"
MaxGiven(max_gp) == max_gp # None

construct_fact_cayenne_exp(min_gp, max_gp, kw) ==
    Text(<<"gamesPlayed>=", Format(min_gp)>>
         \o (IF MaxGiven(max_gp) THEN <<" and gamesPlayed<=", Format(max_gp)>> ELSE <<>>)
         \o (IF kw.property # None
               THEN TripleLoop(Zip3(AsList(kw.property), AsList(kw.comparator),
                                    AsList(kw.value)))
               ELSE <<>>))

\* the arguments the calls are given
OneOrList(S) == {None} \cup S \cup {JList(l) : l \in SeqsUpTo(S, MaxTriples) \ {<<>>}}

FactStart ==
    /\ q_fn = "construct_fact_cayenne_exp"
    /\ q_args \in [min_gp : {JNum(0), JNum(10)},
                    max_gp : {None, JNum(82)},
                    default_kwargs : [property : OneOrList({JStr("goals"), JStr("assists")}),
                                      comparator : OneOrList({JStr(">="), JStr("<=")}),
                                      value : OneOrList({JNum(20)})]]
    /\ q_out = Pending

ConstructFactCayenneExp ==
    /\ q_fn = "construct_fact_cayenne_exp" /\ q_out = Pending
    /\ q_out' = construct_fact_cayenne_exp(q_args.min_gp, q_args.max_gp,
                                           q_args.default_kwargs)
    /\ UNCHANGED <<q_fn, q_args>>
    /\ UNCHANGED otherThanQuery

QueryStart == SortingStart \/ CayenneStart \/ FactStart

NextQuery == ConstructSortingParams \/ ConstructCayenneExp \/ ConstructFactCayenneExp

InitQuery == QueryStart /\ PageIdle /\ FilterIdle /\ ParamsIdle /\ ViewIdle /\ SortIdle /\ RequestIdle /\ ThreadsIdle /\ LoopIdle /\ WrapIdle
SpecQuery == InitQuery /\ [][NextQuery]_vars

(***************************************************************************)
(* Properties of the construct_* functions                                 *)
(***************************************************************************)
Called(fn) == q_fn = fn /\ q_out # Pending

\* C21: when the number of sort fields differs from the number of
\* directions (a scalar counting as a list of one), construct_sorting_params
\* rejects the call with an error and gives no sort specification, so that
\* no field or direction is dropped.
C21_SortArityRejected ==
    (/\ Called("construct_sorting_params")
     /\ q_args.validation /\ AsList(q_args.sort) # <<>>
     /\ Len(AsList(q_args.sort)) # Len(AsList(q_args.direction)))
        => q_out.t = "raise"

\* the opening pieces of the three range clauses, and how often a piece
\* occurs in the output
SeasonRange == "seasonId<="
DateRange == "gameDate<='"
SingleSeason == "seasonId="
Occurs(piece) == Count(piece, q_out.v)

SeasonsGiven == q_args.start_season # None /\ q_args.end_season # None
DatesGiven == q_args.start_date # None /\ q_args.end_date # None
SeasonGiven == q_args.season # None

\* C22: the output of construct_cayenne_exp holds the season-range clause
\* when both start_season and end_season are given, otherwise the
\* date-range clause when both dates are given, otherwise the single-season
\* clause when season is given, and never two range clauses, whatever
\* combination of modes is supplied.  (A call fails only in formatting a
\* date of the date-range branch.)
C22_OneRangeClauseByPriority ==
    Called("construct_cayenne_exp") =>
        /\ q_out.t = "text" =>
              /\ Occurs(SeasonRange) + Occurs(DateRange) + Occurs(SingleSeason) <= 1
              /\ Occurs(SeasonRange) = 1 <=> SeasonsGiven
              /\ Occurs(DateRange) = 1 <=> (~SeasonsGiven /\ DatesGiven)
              /\ Occurs(SingleSeason) = 1 <=> (~SeasonsGiven /\ ~DatesGiven /\ SeasonGiven)
        /\ q_out.t # "text" =>
              /\ q_out = Raised("ValueError")
              /\ ~SeasonsGiven /\ DatesGiven
              /\ q_args.start_date = JStr(Dates.slashed)

C22_Witness ==
    /\ Called("construct_cayenne_exp")
    /\ SeasonsGiven /\ DatesGiven /\ SeasonGiven
    /\ q_args.default_kwargs = None
    /\ q_out = Text(<<"seasonId<=", "20222023", " and seasonId>=", "20212022">>)

\* C23: when no selection mode is complete (no season, no pair of seasons,
\* no pair of dates; a half-supplied pair included) construct_cayenne_exp
\* fails with an error, and never gives an expression without a range
\* clause.
C23_MissingModeRejected ==
    (Called("construct_cayenne_exp") /\ ~SeasonsGiven /\ ~DatesGiven /\ ~SeasonGiven)
        => q_out.t = "raise"

\* the items of default_kwargs that give a clause, in the order of the
\* mapping, and the opening piece of the clause of an item
Items24 == IF Truthy(q_args.default_kwargs) THEN q_args.default_kwargs.v ELSE <<>>
KnownKeys == {"game_type", "franchise_id", "position", "player_name", "is_rookie"}
GivesClause(item) == item[1] \in KnownKeys /\ item[2] # None
ClauseHead(item) ==
    CASE item[1] = "game_type" -> "gameTypeId="
      [] item[1] = "franchise_id" -> "franchiseId="
      [] item[1] = "player_name" -> "skaterFullName likeIgnoreCase '%"
      [] item[1] = "is_rookie" -> "isRookie="
      [] item[1] = "position" -> IF item[2].t = "list" THEN "(" ELSE "positionCode='"
Supplied == {i \in 1..Len(Items24) : GivesClause(Items24[i])}
RangeClauses == Occurs(SeasonRange) + Occurs(DateRange) + Occurs(SingleSeason)

\* where a piece first stands in the output (0: nowhere)
PlaceOf(piece) ==
    IF InSeq(piece, q_out.v)
      THEN CHOOSE i \in 1..Len(q_out.v) :
              q_out.v[i] = piece /\ \A j \in 1..(i - 1) : q_out.v[j] # piece
      ELSE 0

\* C24: the expression is the range clause followed by one clause for each
\* supplied non-null predicate, in the order of the mapping, joined by
\* " and " with none leading or trailing; null and unknown parameters add
\* nothing; a position given as one code gives positionCode='X' and one
\* given as a list the parenthesised " or "-join of such equalities.
C24_PrimaryAssembly ==
    (Called("construct_cayenne_exp") /\ q_out.t = "text") =>
        LET out == q_out.v IN
        /\ out # <<>> => (out[1] # " and " /\ out[Len(out)] # " and ")
        /\ out = <<>> <=> (RangeClauses = 0 /\ Supplied = {})
        /\ out # <<>> => Occurs(" and ") = RangeClauses + Cardinality(Supplied) - 1
        /\ RangeClauses = 1 =>
              out[1] \in {SeasonRange, DateRange, SingleSeason}
        /\ \A i \in Supplied :
              /\ Occurs(ClauseHead(Items24[i])) = 1
              /\ PlaceOf(ClauseHead(Items24[i])) > RangeClauses
              /\ \A j \in Supplied : i < j =>
                    PlaceOf(ClauseHead(Items24[i])) < PlaceOf(ClauseHead(Items24[j]))
        /\ \A i \in 1..Len(Items24) :
              (Items24[i][1] = "position" /\ Items24[i][2].t = "list") =>
                  LET n == PlaceOf("(") IN
                  SubSeq(out, n, n + 8) =
                      <<"(", "positionCode='", "C", "'", " or ",
                        "positionCode='", "D", "'", ")">>
        /\ \A i \in 1..Len(Items24) :
              (Items24[i][1] = "position" /\ Items24[i][2].t = "str") =>
                  LET n == PlaceOf("positionCode='") IN
                  SubSeq(out, n, n + 2) = <<"positionCode='", "C", "'">>

C24_Witness ==
    /\ Called("construct_cayenne_exp")
    /\ q_args.season = JStr("20232024") /\ ~SeasonsGiven /\ ~DatesGiven
    /\ q_args.default_kwargs = JDict(<< <<"game_type", JNum(2)>>,
                                        <<"position", JList(<<JStr("C"), JStr("D")>>)>> >>)
    /\ q_out = Text(<<"seasonId=", "20232024", " and ", "gameTypeId=", "2", " and ",
                      "(", "positionCode='", "C", "'", " or ",
                      "positionCode='", "D", "'", ")">>)

\* the number of triples the three lists give, taken in lock-step
Properties == AsList(q_args.default_kwargs.property)
Comparators == AsList(q_args.default_kwargs.comparator)
Values == AsList(q_args.default_kwargs.value)
TriplesGiven == q_args.default_kwargs.property # None
EqualLengths == Len(Properties) = Len(Comparators) /\ Len(Comparators) = Len(Values)

\* C25: the fact expression starts with gamesPlayed>=MIN, has the
\* gamesPlayed<=MAX clause exactly when max_gp is given, then one clause for
\* each index of the property, comparator and value lists; when the three
\* lists differ in length the call fails and no expression is given.
C25_FactExpression ==
    Called("construct_fact_cayenne_exp") =>
        IF TriplesGiven /\ ~EqualLengths THEN q_out.t = "raise"
        ELSE /\ q_out.t = "text"
             /\ SubSeq(q_out.v, 1, 2) = <<"gamesPlayed>=", Format(q_args.min_gp)>>
             /\ Occurs(" and gamesPlayed<=") = 1 <=> q_args.max_gp # None
             /\ Occurs(" and ") = IF TriplesGiven THEN Len(Properties) ELSE 0

(***************************************************************************)
(* make_api_request called on its own, with every argument the caller may  *)
(* pass: a url, a timeout and a retries of the right or the wrong kind.    *)
(***************************************************************************)
Urls == {JStr("url"), JNum(5)}
Timeouts == {JNum(10), JNum(0), JStr("10")}
RetriesArgs == {JNum(n) : n \in 0..MaxRetries} \cup {JStr("3")}

\* "isinstance(x, int) and x > 0"
PositiveInt(x) == x.t = "int" /\ x.v > 0

\* the three checks under "if validation:" ; nhlAPI.py tests the types only
ArgumentsRejected(i, u, t, n) ==
    \/ u.t # "str"
    \/ IF i = "scraper" THEN ~PositiveInt(t) ELSE t.t # "int"
    \/ IF i = "scraper" THEN ~PositiveInt(n) ELSE n.t # "int"

\* What a GET can come to.  requests turns a url that is no string into
\* text and finds no scheme in it (MissingSchema, a RequestException); it
\* refuses a timeout that is no positive number with a ValueError before
\* it connects; otherwise the server and the network decide.
GetOutcomes(u, t) ==
    IF u.t # "str" THEN {"fail"}
    ELSE IF ~PositiveInt(t) THEN {"invalid"}
    ELSE Outcomes

ThrownBy(i, o, j) == IF o = "invalid" THEN "ValueError" ELSE Thrown(i, o, j)

\* backoff is left at its default: 0.1 in generalFunctions.py, 0.5 in nhlAPI.py
DefaultBackoff(i) == IF i = "scraper" THEN BackoffGeneral ELSE BackoffLegacy

GetEvent(o) == [e |-> "get", o |-> o]
SleepEvent(d) == [e |-> "sleep", o |-> d]

RequestStart ==
    /\ r_impl \in {"scraper", "legacy"}
    /\ r_json \in BOOLEAN
    /\ r_url \in Urls
    /\ r_timeout \in Timeouts
    /\ r_retries \in RetriesArgs
    /\ r_validation \in BOOLEAN
    /\ r_pc = "start"
    /\ r_attempt = 0
    /\ r_events = <<>>
    /\ r_ret = Pending

requestArgs == <<r_impl, r_json, r_url, r_timeout, r_retries, r_validation>>

\* the argument checks that precede the loop
CheckArguments ==
    /\ r_pc = "start"
    /\ IF r_validation /\ ArgumentsRejected(r_impl, r_url, r_timeout, r_retries)
         THEN r_pc' = "raised" /\ r_ret' = Raised("ValueError")
         ELSE r_pc' = "running" /\ r_ret' = r_ret
    /\ UNCHANGED <<requestArgs, r_attempt, r_events>>
    /\ UNCHANGED otherThanRequest

\* "for attempt in range(retries)" with a retries that is no integer
RangeRaises ==
    /\ r_pc = "running"
    /\ r_retries.t # "int"
    /\ r_pc' = "raised" /\ r_ret' = Raised("TypeError")
    /\ UNCHANGED <<requestArgs, r_attempt, r_events>>
    /\ UNCHANGED otherThanRequest

\* range(retries) is exhausted: "return None" after the loop
Exhausted ==
    /\ r_pc = "running"
    /\ r_retries.t = "int"
    /\ ~LoopRuns(r_attempt, r_retries.v)
    /\ r_pc' = "returned" /\ r_ret' = None
    /\ UNCHANGED <<requestArgs, r_attempt, r_events>>
    /\ UNCHANGED otherThanRequest

\* one pass of the loop body: a GET and what follows it
Attempt(o) ==
    /\ r_pc = "running"
    /\ r_retries.t = "int"
    /\ LoopRuns(r_attempt, r_retries.v)
    /\ o \in GetOutcomes(r_url, r_timeout)
    /\ LET e == ThrownBy(r_impl, o, r_json) IN
         CASE e = "none" ->
                /\ r_pc' = "returned"
                /\ r_ret' = IF o = "empty" THEN None ELSE JDict(<<>>)
                /\ r_events' = Append(r_events, GetEvent(o))
           [] e = "RequestException" ->
                IF ShouldRetry(r_attempt, r_retries.v)
                  THEN /\ r_pc' = "sleeping"
                       /\ r_events' = r_events \o
                            <<GetEvent(o),
                              SleepEvent(BackoffDelay(r_attempt, DefaultBackoff(r_impl)))>>
                       /\ r_ret' = r_ret
                  ELSE /\ r_pc' = "returned"
                       /\ r_ret' = None
                       /\ r_events' = Append(r_events, GetEvent(o))
           [] OTHER ->
                /\ r_ret' = Uncaught(r_impl, e)
                /\ r_pc' = IF r_ret'.t = "raise" THEN "raised" ELSE "returned"
                /\ r_events' = Append(r_events, GetEvent(o))
    /\ UNCHANGED <<requestArgs, r_attempt>>
    /\ UNCHANGED otherThanRequest

\* time.sleep(delay) ends, the loop goes to the next attempt
NextAttempt ==
    /\ r_pc = "sleeping"
    /\ r_pc' = "running"
    /\ r_attempt' = r_attempt + 1
    /\ UNCHANGED <<requestArgs, r_events, r_ret>>
    /\ UNCHANGED otherThanRequest

NextRequest ==
    \/ CheckArguments
    \/ RangeRaises
    \/ Exhausted
    \/ \E o \in Outcomes \cup {"invalid"} : Attempt(o)
    \/ NextAttempt

InitRequest == RequestStart /\ PageIdle /\ FilterIdle /\ ParamsIdle /\ ViewIdle /\ SortIdle /\ QueryIdle /\ ThreadsIdle /\ LoopIdle /\ WrapIdle
SpecRequest == InitRequest /\ [][NextRequest]_vars

\* the call is over: it returned or raised
Over == r_pc \in {"returned", "raised"}
Attempts == Len(SelectSeq(r_events, LAMBDA x : x.e = "get"))
Sleeps == Len(SelectSeq(r_events, LAMBDA x : x.e = "sleep"))

\* an argument fails the precondition the documentation gives it
FailsPrecondition ==
    r_url.t # "str" \/ ~PositiveInt(r_timeout) \/ ~PositiveInt(r_retries)

\* C26: with validation enabled and a url that is no string, or a timeout
\* or a retries that is no positive integer, make_api_request raises a
\* validation error before any GET: past the argument checks the call is
\* over with a ValueError, zero attempts and zero sleeps.
C26_ValidationPrecedesIO ==
    (r_validation /\ FailsPrecondition /\ r_pc \notin {"idle", "start"})
        => /\ r_pc = "raised"
           /\ r_ret = Raised("ValueError")
           /\ Attempts = 0 /\ Sleeps = 0

\* the attempt r_events[i] came back with a payload or an empty body
Succeeded(i) ==
    r_events[i].e = "get" /\ ThrownBy(r_impl, r_events[i].o, r_json) = "none"
\* the attempt r_events[i] raised a RequestException
Failed(i) ==
    r_events[i].e = "get" /\ ThrownBy(r_impl, r_events[i].o, r_json) = "RequestException"

\* attempts and sleeps take turns, the first event being an attempt; a sleep
\* follows a failed attempt, and an attempt follows every sleep once the
\* call is over
Alternate ==
    /\ \A i \in 1..Len(r_events) :
         r_events[i].e = (IF i % 2 = 1 THEN "get" ELSE "sleep")
    /\ \A i \in 2..Len(r_events) : r_events[i].e = "sleep" => Failed(i - 1)
    /\ Over /\ r_events # <<>> => r_events[Len(r_events)].e = "get"

\* nothing follows a successful attempt, which ends the call at once, and
\* no call makes more attempts than retries
SuccessIsLast ==
    /\ \A i \in 1..Len(r_events) :
         Succeeded(i) => /\ i = Len(r_events)
                         /\ r_pc = "returned"
                         /\ r_ret = (IF r_events[i].o = "empty" THEN None ELSE JDict(<<>>))
    /\ r_retries.t = "int" => Attempts <= r_retries.v

\* C29 as claimed: attempts and backoff sleeps strictly alternate, nothing
\* follows a successful attempt, and in every execution, a call that made
\* no attempt included, the number of sleeps is the number of attempts
\* minus one.
C29_SleepsAreAttemptsMinusOne ==
    /\ Alternate
    /\ SuccessIsLast
    /\ Over => Sleeps = Attempts - 1

\* C29 as amended: attempts and backoff sleeps strictly alternate, nothing
\* follows a successful attempt, and a call that made at least one attempt
\* slept once less than it attempted; a call that made no attempt (retries
\* not positive, or rejected arguments) did not sleep.
C29_SleepsBetweenAttempts ==
    /\ Alternate
    /\ SuccessIsLast
    /\ Over => Sleeps = (IF Attempts = 0 THEN 0 ELSE Attempts - 1)

\* a call that failed, slept, failed, slept and then succeeded
C29_Witness ==
    /\ Over /\ Attempts = 3 /\ Sleeps = 2
    /\ Succeeded(Len(r_events)) /\ Failed(1) /\ Failed(3)

(***************************************************************************)
(* The pagination loop on its own, the service being free to answer a page *)
(* request with any payload: "data" of 0 to limit records and any "total", *)
(* both of which may change from one page to the next.  make_api_request   *)
(* is taken as a whole here: it gives None, gives a payload or raises.     *)
(***************************************************************************)
\* the payloads the service may give for a request at start s with limit l
Responses(s, l) ==
    {JDict([data |-> [i \in 1..k |-> s + i], total |-> n]) : k \in 0..l, n \in 0..MaxData}

LoopStart ==
    /\ l_impl \in {"scraper", "legacy"}
    /\ l_limit \in 0..MaxLimit
    /\ l_gs = "Fetching"
    /\ l_all_data = <<>>
    /\ l_start = 0
    /\ l_data = Pending
    /\ l_result = None

\* "data = make_api_request(url, ...)" at the top of the loop body
LoopRequest ==
    /\ l_gs = "Fetching" /\ l_data = Pending
    /\ l_data' \in {None, Raised("ValueError")} \cup Responses(l_start, l_limit)
    /\ UNCHANGED <<l_impl, l_limit, l_gs, l_all_data, l_start, l_result>>
    /\ UNCHANGED otherThanLoop

\* make_api_request raised, and nothing catches it
LoopRaised ==
    /\ l_gs = "Fetching" /\ l_data.t = "raise"
    /\ l_gs' = "Raised"
    /\ l_result' = l_data
    /\ UNCHANGED <<l_impl, l_limit, l_all_data, l_start, l_data>>
    /\ UNCHANGED otherThanLoop

\* "if data is None: return None"
LoopAbsent ==
    /\ l_gs = "Fetching" /\ l_data = None
    /\ l_gs' = "Failed"
    /\ l_result' = AbsentResult(l_impl, l_all_data)
    /\ UNCHANGED <<l_impl, l_limit, l_all_data, l_start, l_data>>
    /\ UNCHANGED otherThanLoop

\* "all_data.extend(...)" and "if len(all_data) >= data.get("total", 0): break"
LoopBreak ==
    /\ l_gs = "Fetching" /\ l_data.t = "dict"
    /\ LoopDone(Extend(l_all_data, l_data.v.data), l_data.v.total)
    /\ l_all_data' = Extend(l_all_data, l_data.v.data)
    /\ l_gs' = "Complete"
    /\ l_result' = FinalResult(l_impl, l_all_data')
    /\ UNCHANGED <<l_impl, l_limit, l_start, l_data>>
    /\ UNCHANGED otherThanLoop

\* "all_data.extend(...)", no break, "params["start"] = str(len(all_data))"
\* and back to the top of "while True"
LoopAgain ==
    /\ l_gs = "Fetching" /\ l_data.t = "dict"
    /\ ~LoopDone(Extend(l_all_data, l_data.v.data), l_data.v.total)
    /\ l_all_data' = Extend(l_all_data, l_data.v.data)
    /\ l_start' = NextStart(l_all_data')
    /\ l_data' = Pending
    /\ UNCHANGED <<l_impl, l_limit, l_gs, l_result>>
    /\ UNCHANGED otherThanLoop

NextLoop ==
    \/ LoopRequest
    \/ LoopRaised
    \/ LoopAbsent
    \/ LoopBreak
    \/ LoopAgain

InitLoop == LoopStart /\ PageIdle /\ FilterIdle /\ ParamsIdle /\ ViewIdle /\ SortIdle /\ QueryIdle /\ RequestIdle /\ ThreadsIdle /\ WrapIdle

\* The interpreter runs the call's next statement whenever there is one, and
\* make_api_request always comes back (bounded attempts, each with a timeout).
SpecLoop == InitLoop /\ [][NextLoop]_vars /\ WF_vars(NextLoop)

\* C28: whatever pages the service gives, the loop makes finitely many
\* requests and the call ends: it reaches Complete or Failed (or ends by
\* the exception make_api_request raised).
C28_PaginationTerminates == <>(l_gs \in {"Complete", "Failed", "Raised"})

(***************************************************************************)
(* The wrappers that document a "dict | None" result, from the return of   *)
(* make_api_request on: get_roster, get_roster_seasons, get_player_landing,*)
(* get_player_gamelog and get_stats with return_all=False.  The call gives *)
(* or omits sort (with its direction), filter_fields, filter_data and      *)
(* exclude_data, gives a view or none, and leaves return_info and          *)
(* validation at False.  make_api_request gave None or a payload; the      *)
(* payloads taken here hold no rows, so that the sort and the filters,     *)
(* when they run on them, leave them as they are.                          *)
(***************************************************************************)
Wrappers == {"get_roster", "get_roster_seasons", "get_player_landing",
             "get_player_gamelog", "get_stats"}
WrapViews == {None, PathStr(<<"data">>), PathStr(<<"data", ".", "total">>)}
WrapOptions == [sort : BOOLEAN, filter_fields : BOOLEAN, filter_data : BOOLEAN,
                exclude_data : BOOLEAN, view : WrapViews]

\* a payload of the endpoint, without rows
Payload(fn) ==
    CASE fn = "get_roster" -> JDict([forwards |-> JList(<<>>)])
      [] fn = "get_roster_seasons" -> JList(<<>>)
      [] fn = "get_player_landing" -> JDict([seasonTotals |-> JList(<<>>)])
      [] fn = "get_player_gamelog" -> JDict([gameLog |-> JList(<<>>)])
      [] OTHER -> JDict([data |-> JList(<<>>), total |-> JNum(0)])

\* "data = {"data": make_api_request(...)}"
Wrapped(x) == JDict([data |-> x])

\* a statement of the wrapper that iterates, subscripts or calls a method
\* of the value make_api_request gave: on tells whether the call runs it,
\* err what it raises when that value is None
Step(on, err) == [on |-> on, err |-> err]

\* the exception of the first such statement the call runs, None if it
\* runs none
RECURSIVE FirstError(_)
FirstError(steps) ==
    IF steps = <<>> THEN None
    ELSE IF steps[1].on THEN Raised(steps[1].err)
    ELSE FirstError(Tail(steps))

\* "filter_view(data, view, validation) if view is not None else data"
Viewed(d, view) == IF view # None THEN filter_view(d, view, FALSE) ELSE d

\* the statements of each wrapper that touch the value, in program order
Touching(fn, o) ==
    CASE fn = "get_roster" ->
           \* "for pos_group in data["data"]" of the sort, then of the totals
           <<Step(o.sort, "TypeError"), Step(TRUE, "TypeError")>>
      [] fn = "get_roster_seasons" ->
           \* "for season in data["data"]" twice, "data["data"].sort(...)",
           \* "len(data["data"])" when there is no view
           <<Step(o.exclude_data, "TypeError"), Step(o.filter_data, "TypeError"),
             Step(o.sort, "AttributeError"), Step(o.view = None, "TypeError")>>
      [] fn = "get_player_landing" ->
           \* "data["data"]["seasonTotals"]", the last one whatever is given
           <<Step(o.sort, "TypeError"), Step(o.filter_fields, "TypeError"),
             Step(TRUE, "TypeError")>>
      [] fn = "get_player_gamelog" ->
           \* "data["data"]["gameLog"]" twice, "data.get("data", []).get(...)" twice
           <<Step(o.sort, "TypeError"), Step(o.filter_fields, "TypeError"),
             Step(o.filter_data, "AttributeError"), Step(o.exclude_data, "AttributeError")>>
      [] OTHER ->
           \* "data["data"]"; the view is taken of data itself
           <<Step(o.filter_fields, "TypeError")>>

\* the value the wrapper returns when no statement raised
ReturnValue(fn, x, o) ==
    CASE fn = "get_roster" ->
           \* "data["data"]["total"] = total"
           Viewed(Wrapped(JDict([forwards |-> JList(<<>>), total |-> JNum(0)])), o.view)
      [] fn = "get_roster_seasons" ->
           IF o.view # None THEN Viewed(Wrapped(x), o.view)
           ELSE JDict([data |-> x, total |-> JNum(0)])
      [] fn = "get_player_landing" -> Viewed(Wrapped(x), o.view)
      [] fn = "get_player_gamelog" ->
           IF x # None /\ (o.filter_data \/ o.exclude_data)
             THEN Viewed(Wrapped(JDict([seasonId |-> None, gameTypeId |-> None,
                                        playerStatsSeasons |-> JList(<<>>),
                                        gameLog |-> JList(<<>>)])), o.view)
             ELSE Viewed(Wrapped(x), o.view)
      [] OTHER -> Viewed(x, o.view)

\* the wrapper from the return of make_api_request to its own return
wrapper(fn, x, o) ==
    LET e == IF x = None THEN FirstError(Touching(fn, o)) ELSE None
    IN  IF e # None THEN e ELSE ReturnValue(fn, x, o)

WrapStart ==
    /\ w_fn \in Wrappers
    /\ w_opts \in WrapOptions
    /\ w_data \in {None, Payload(w_fn)}
    /\ w_out = Pending

WrapCall(fn) ==
    /\ w_fn = fn /\ w_out = Pending
    /\ w_out' = wrapper(fn, w_data, w_opts)
    /\ UNCHANGED <<w_fn, w_opts, w_data>>
    /\ UNCHANGED otherThanWrap

NextWrap == \E fn \in Wrappers : WrapCall(fn)

InitWrap == WrapStart /\ PageIdle /\ FilterIdle /\ ParamsIdle /\ ViewIdle /\ SortIdle /\ QueryIdle /\ RequestIdle /\ ThreadsIdle /\ LoopIdle
SpecWrap == InitWrap /\ [][NextWrap]_vars

\* C30: when make_api_request gave None, each of these wrappers returns
\* None and raises nothing, whichever of sort, filter_data, exclude_data,
\* filter_fields and view the call gives.
C30_NonePropagates ==
    (w_fn \in Wrappers /\ w_data = None /\ w_out # Pending) => w_out = None

=============================================================================
